---------------------------- MODULE Spec2Model ----------------------------
(***************************************************************************)
(* A model of the biscuit-auth core: the per-algorithm key types           *)
(* (crypto/ed25519.rs, crypto/p256.rs), the public-key interning table     *)
(* (token/public_keys.rs), the third-party block request                   *)
(* (token/third_party.rs) and the authorizer snapshot                      *)
(* (token/authorizer/snapshot.rs).                                         *)
(*                                                                         *)
(* Byte strings are sequences of 0..255, hex strings are sequences of      *)
(* one-character strings.  The cryptographic primitives are leaves: a      *)
(* public key is derived from a secret by an injective byte-wise map, and  *)
(* a signature names the public key of its signer and the signed bytes     *)
(* (an unforgeable, non-malleable scheme).                                 *)
(***************************************************************************)
EXTENDS Integers, Sequences, FiniteSets, TLC

(***************************************************************************)
(* Bounds of the model.                                                    *)
(***************************************************************************)
MaxSeed == 3
MaxKey == 2
MaxTable == 3
MaxFacts == 2
MaxChain == 3
MaxBlocks == 3
MaxAuthorizerFacts == 1
MaxPolicies == 1
MaxTags == 3

(***************************************************************************)
(* Results: Ok(v) / Err(e).                                                *)
(***************************************************************************)
Ok(v) == [ok |-> TRUE, val |-> v, err |-> "", detail |-> <<>>]
Err(e) == [ok |-> FALSE, val |-> <<>>, err |-> e, detail |-> <<>>]
ErrWith(e, d) == [ok |-> FALSE, val |-> <<>>, err |-> e, detail |-> d]

(***************************************************************************)
(* Bytes and hex.                                                          *)
(***************************************************************************)
RECURSIVE to_le_bytes(_, _)
\* i32::to_le_bytes: the `len` low bytes of n, least significant first.
to_le_bytes(n, len) ==
    IF len = 0 THEN <<>> ELSE <<n % 256>> \o to_le_bytes(n \div 256, len - 1)

HexDigits == <<"0", "1", "2", "3", "4", "5", "6", "7",
               "8", "9", "a", "b", "c", "d", "e", "f">>

\* hex::encode: two lowercase digits per byte, high nibble first.
hex_encode(bytes) ==
    [i \in 1..(2 * Len(bytes)) |->
        IF i % 2 = 1 THEN HexDigits[(bytes[(i + 1) \div 2] \div 16) + 1]
                     ELSE HexDigits[(bytes[i \div 2] % 16) + 1]]

IsHexDigit(c) == \E d \in 1..16 : HexDigits[d] = c
HexValue(c) == (CHOOSE d \in 1..16 : HexDigits[d] = c) - 1

\* hex::decode: fails on an odd length or on a character that is no digit.
hex_decode(str) ==
    IF Len(str) % 2 # 0 THEN Err("OddLength")
    ELSE IF \E i \in 1..Len(str) : ~IsHexDigit(str[i]) THEN Err("InvalidHexCharacter")
    ELSE Ok([i \in 1..(Len(str) \div 2) |->
                16 * HexValue(str[2 * i - 1]) + HexValue(str[2 * i])])

(***************************************************************************)
(* schema::public_key::Algorithm and the key material.                     *)
(***************************************************************************)
Algorithms == {"Ed25519", "P256"}
\* The wire value of an algorithm (`Algorithm::X as i32`).
AlgorithmTag(alg) == IF alg = "Ed25519" THEN 0 ELSE 1

ED25519_KEY_LENGTH == 32
P256_SCALAR_LENGTH == 32

\* The bytes a cryptographic RNG hands to key generation, per seed.
RngBytes(seed, len) == [i \in 1..len |-> (seed * 37 + i * 11) % 256]

\* Secret -> public point: injective, byte-wise (stands for scalar multiplication).
DerivePoint(secret) == [i \in 1..Len(secret) |-> (secret[i] * 5 + 3) % 256]
\* The parity of the P-256 point's y coordinate, which the x coordinate does not fix.
DeriveYOdd(secret) == secret[1] % 2

\* A public key value: the algorithm, the point's bytes and (P-256) the y parity.
NoKey == [algorithm |-> "none", x |-> <<>>, odd |-> 0]
\* A private key value: the algorithm and the raw secret.
NoSecret == [algorithm |-> "none", secret |-> <<>>]


\* A signature value: its byte length, and what the leaf scheme binds it to.
NoSignature == [len |-> 0, signer |-> NoKey, data |-> <<>>]
\* The messages that get signed.
Messages == {<<104, 101, 108, 108, 111>>, <<119>>}
\* The signing primitive (try_sign): 64 signature bytes bound to signer and data.
try_sign(public, data) == [len |-> 64, signer |-> public, data |-> data]

(***************************************************************************)
(* crypto/ed25519.rs                                                       *)
(***************************************************************************)
ed25519_KeyPair_new_with_rng(seed) ==
    LET secret == RngBytes(seed, ED25519_KEY_LENGTH)
    IN [algorithm |-> "Ed25519", secret |-> secret,
        public |-> [algorithm |-> "Ed25519", x |-> DerivePoint(secret), odd |-> 0]]

ed25519_KeyPair_from(key) ==
    [algorithm |-> "Ed25519", secret |-> key.secret,
     public |-> [algorithm |-> "Ed25519", x |-> DerivePoint(key.secret), odd |-> 0]]

ed25519_KeyPair_sign(kp, data) == Ok(try_sign(kp.public, data))

ed25519_KeyPair_private(kp) == [algorithm |-> "Ed25519", secret |-> kp.secret]

ed25519_KeyPair_public(kp) == kp.public

ed25519_KeyPair_algorithm(kp) == "Ed25519"

ed25519_PrivateKey_to_bytes(key) == key.secret

ed25519_PrivateKey_to_bytes_hex(key) == hex_encode(ed25519_PrivateKey_to_bytes(key))

ed25519_PrivateKey_from_bytes(bytes) ==
    IF Len(bytes) # ED25519_KEY_LENGTH THEN ErrWith("InvalidKeySize", <<Len(bytes)>>)
    ELSE Ok([algorithm |-> "Ed25519", secret |-> bytes])

ed25519_PrivateKey_from_bytes_hex(str) ==
    LET bytes == hex_decode(str)
    IN IF ~bytes.ok THEN Err("InvalidKey") ELSE ed25519_PrivateKey_from_bytes(bytes.val)

ed25519_PrivateKey_public(key) ==
    [algorithm |-> "Ed25519", x |-> DerivePoint(key.secret), odd |-> 0]

ed25519_PrivateKey_algorithm(key) == "Ed25519"

ed25519_PublicKey_to_bytes(pk) == pk.x

ed25519_PublicKey_to_bytes_hex(pk) == hex_encode(ed25519_PublicKey_to_bytes(pk))

\* ed25519_dalek::PublicKey::from_bytes: 32 bytes that decompress to a point
\* (here every 32-byte string is the encoding of a point).
ed25519_PublicKey_from_bytes(bytes) ==
    IF Len(bytes) # ED25519_KEY_LENGTH THEN Err("InvalidKey")
    ELSE Ok([algorithm |-> "Ed25519", x |-> bytes, odd |-> 0])

ed25519_PublicKey_from_bytes_hex(str) ==
    LET bytes == hex_decode(str)
    IN IF ~bytes.ok THEN Err("InvalidKey") ELSE ed25519_PublicKey_from_bytes(bytes.val)

ed25519_PublicKey_from_proto(key) ==
    IF key.algorithm # AlgorithmTag("Ed25519") THEN Err("DeserializationError")
    ELSE ed25519_PublicKey_from_bytes(key.key)

ed25519_PublicKey_to_proto(pk) ==
    [algorithm |-> AlgorithmTag("Ed25519"), key |-> ed25519_PublicKey_to_bytes(pk)]

\* verify_signature, had it only checked that the signature is well formed.
ed25519_PublicKey_verify_signature_any(pk, data, signature) ==
    IF signature.len # 64 THEN Err("BlockSignatureDeserializationError")
    ELSE Ok(<<>>)

ed25519_PublicKey_verify_signature(pk, data, signature) ==
    IF signature.len # 64 THEN Err("BlockSignatureDeserializationError")
    ELSE IF signature.signer = pk /\ signature.data = data THEN Ok(<<>>)
    ELSE Err("InvalidSignature")

ed25519_PublicKey_algorithm(pk) == "Ed25519"

ed25519_PublicKey_print(pk) ==
    [algorithm |-> "ed25519", hex |-> hex_encode(ed25519_PublicKey_to_bytes(pk))]

(***************************************************************************)
(* crypto/p256.rs                                                          *)
(***************************************************************************)
\* The fixed ASN.1 prefix of a PKCS#8 document holding a P-256 private key.
Pkcs8Header == <<48, 129, 135, 2, 1, 0, 48, 19>>

\* SigningKey::to_pkcs8_der
to_pkcs8_der(secret) == Pkcs8Header \o secret

\* SigningKey::from_pkcs8_der
from_pkcs8_der(bytes) ==
    IF /\ Len(bytes) = Len(Pkcs8Header) + P256_SCALAR_LENGTH
       /\ SubSeq(bytes, 1, Len(Pkcs8Header)) = Pkcs8Header
    THEN Ok(SubSeq(bytes, Len(Pkcs8Header) + 1, Len(bytes)))
    ELSE Err("InvalidKey")

\* VerifyingKey::from_sec1_bytes, on a compressed point: the tag 2 or 3
\* gives the parity of y, the rest is x.
from_sec1_bytes(bytes) ==
    IF Len(bytes) = P256_SCALAR_LENGTH + 1 /\ bytes[1] \in {2, 3}
    THEN Ok([algorithm |-> "P256", x |-> Tail(bytes), odd |-> bytes[1] - 2])
    ELSE Err("InvalidKey")

p256_KeyPair_new_with_rng(seed) ==
    LET secret == RngBytes(seed, P256_SCALAR_LENGTH)
    IN [algorithm |-> "P256", secret |-> secret,
        public |-> [algorithm |-> "P256", x |-> DerivePoint(secret),
                    odd |-> DeriveYOdd(secret)]]

p256_KeyPair_sign(kp, data) == Ok(try_sign(kp.public, data))

p256_KeyPair_private(kp) == [algorithm |-> "P256", secret |-> kp.secret]

p256_KeyPair_public(kp) == kp.public

p256_KeyPair_algorithm(kp) == "P256"

\* to_bytes, had it returned the raw scalar (`self.0.to_bytes().into()`).
p256_PrivateKey_to_bytes_raw(key) == key.secret

p256_PrivateKey_to_bytes(key) == to_pkcs8_der(key.secret)

p256_PrivateKey_to_bytes_hex(key) == hex_encode(p256_PrivateKey_to_bytes(key))

p256_PrivateKey_from_bytes(bytes) ==
    LET k == from_pkcs8_der(bytes)
    IN IF ~k.ok THEN Err("InvalidKey")
       ELSE Ok([algorithm |-> "P256", secret |-> k.val])

p256_PrivateKey_from_bytes_hex(str) ==
    LET bytes == hex_decode(str)
    IN IF ~bytes.ok THEN Err("InvalidKey") ELSE p256_PrivateKey_from_bytes(bytes.val)

p256_PrivateKey_public(key) ==
    [algorithm |-> "P256", x |-> DerivePoint(key.secret), odd |-> DeriveYOdd(key.secret)]

p256_PrivateKey_algorithm(key) == "Ed25519"

p256_PublicKey_to_bytes(pk) == <<2 + pk.odd>> \o pk.x

p256_PublicKey_to_bytes_hex(pk) == hex_encode(p256_PublicKey_to_bytes(pk))

p256_PublicKey_from_bytes(bytes) ==
    LET k == from_sec1_bytes(bytes)
    IN IF ~k.ok THEN Err("InvalidKey") ELSE Ok(k.val)

p256_PublicKey_from_bytes_hex(str) ==
    LET bytes == hex_decode(str)
    IN IF ~bytes.ok THEN Err("InvalidKey") ELSE p256_PublicKey_from_bytes(bytes.val)

p256_PublicKey_from_proto(key) ==
    IF key.algorithm # AlgorithmTag("Ed25519") THEN Err("DeserializationError")
    ELSE p256_PublicKey_from_bytes(key.key)

p256_PublicKey_to_proto(pk) ==
    [algorithm |-> AlgorithmTag("Ed25519"), key |-> p256_PublicKey_to_bytes(pk)]

p256_PublicKey_verify_signature(pk, data, signature) ==
    IF signature.len # 64 THEN Err("BlockSignatureDeserializationError")
    ELSE IF signature.signer = pk /\ signature.data = data THEN Ok(<<>>)
    ELSE Err("InvalidSignature")

p256_PublicKey_algorithm(pk) == "Ed25519"

p256_PublicKey_print(pk) ==
    [algorithm |-> "ed25519", hex |-> hex_encode(p256_PublicKey_to_bytes(pk))]

(***************************************************************************)
(* The closed set of algorithms: dispatch on the key's own type.           *)
(***************************************************************************)
KeyPair_new_with_rng(alg, seed) ==
    IF alg = "Ed25519" THEN ed25519_KeyPair_new_with_rng(seed)
    ELSE p256_KeyPair_new_with_rng(seed)
KeyPair_private(kp) ==
    IF kp.algorithm = "Ed25519" THEN ed25519_KeyPair_private(kp) ELSE p256_KeyPair_private(kp)
KeyPair_public(kp) ==
    IF kp.algorithm = "Ed25519" THEN ed25519_KeyPair_public(kp) ELSE p256_KeyPair_public(kp)
KeyPair_sign(kp, data) ==
    IF kp.algorithm = "Ed25519" THEN ed25519_KeyPair_sign(kp, data)
    ELSE p256_KeyPair_sign(kp, data)
PrivateKey_to_bytes(key) ==
    IF key.algorithm = "Ed25519" THEN ed25519_PrivateKey_to_bytes(key)
    ELSE p256_PrivateKey_to_bytes(key)
PrivateKey_to_bytes_hex(key) ==
    IF key.algorithm = "Ed25519" THEN ed25519_PrivateKey_to_bytes_hex(key)
    ELSE p256_PrivateKey_to_bytes_hex(key)
PrivateKey_from_bytes(alg, bytes) ==
    IF alg = "Ed25519" THEN ed25519_PrivateKey_from_bytes(bytes)
    ELSE p256_PrivateKey_from_bytes(bytes)
PrivateKey_from_bytes_hex(alg, str) ==
    IF alg = "Ed25519" THEN ed25519_PrivateKey_from_bytes_hex(str)
    ELSE p256_PrivateKey_from_bytes_hex(str)
PrivateKey_public(key) ==
    IF key.algorithm = "Ed25519" THEN ed25519_PrivateKey_public(key)
    ELSE p256_PrivateKey_public(key)
PublicKey_to_bytes(pk) ==
    IF pk.algorithm = "Ed25519" THEN ed25519_PublicKey_to_bytes(pk)
    ELSE p256_PublicKey_to_bytes(pk)
PublicKey_to_bytes_hex(pk) ==
    IF pk.algorithm = "Ed25519" THEN ed25519_PublicKey_to_bytes_hex(pk)
    ELSE p256_PublicKey_to_bytes_hex(pk)
PublicKey_from_bytes(alg, bytes) ==
    IF alg = "Ed25519" THEN ed25519_PublicKey_from_bytes(bytes)
    ELSE p256_PublicKey_from_bytes(bytes)
PublicKey_from_bytes_hex(alg, str) ==
    IF alg = "Ed25519" THEN ed25519_PublicKey_from_bytes_hex(str)
    ELSE p256_PublicKey_from_bytes_hex(str)
PublicKey_from_proto(alg, key) ==
    IF alg = "Ed25519" THEN ed25519_PublicKey_from_proto(key)
    ELSE p256_PublicKey_from_proto(key)
PublicKey_verify_signature(pk, data, signature) ==
    IF pk.algorithm = "Ed25519" THEN ed25519_PublicKey_verify_signature(pk, data, signature)
    ELSE p256_PublicKey_verify_signature(pk, data, signature)

(***************************************************************************)
(* token/public_keys.rs: the interning table.  A table is its `keys`       *)
(* vector; indices are 0-based as in the source.                           *)
(***************************************************************************)
PublicKeys_new == <<>>

PublicKeys_from(ks) == ks

RECURSIVE extend_dedup(_, _)
\* extend, had it interned each key the way insert does.
extend_dedup(self, table) ==
    IF table = <<>> THEN self
    ELSE extend_dedup(IF \E i \in 1..Len(self) : self[i] = Head(table)
                      THEN self ELSE Append(self, Head(table)),
                      Tail(table))

extend(self, table) == self \o table

\* Iterator::position: the first index whose key equals k, or -1 for None.
position(self, k) ==
    IF \E i \in 1..Len(self) : self[i] = k
    THEN (CHOOSE i \in 1..Len(self) :
              self[i] = k /\ \A j \in 1..(i - 1) : self[j] # k) - 1
    ELSE -1

\* insert, had it pushed without looking the key up.
insert_always_push(self, k) == [keys |-> Append(self, k), ret |-> Len(self)]

\* insert returns the table after the call and the returned index.
insert(self, k) ==
    IF position(self, k) >= 0
    THEN [keys |-> self, ret |-> position(self, k)]
    ELSE [keys |-> Append(self, k), ret |-> Len(Append(self, k)) - 1]

get(self, k) == position(self, k)

current_offset(self) == Len(self)

\* split_at, had it kept the suffix and handed out the prefix.
split_at_swapped(self, offset) ==
    [keys |-> [i \in 1..(Len(self) - offset) |-> self[offset + i]],
     table |-> [i \in 1..offset |-> self[i]]]

\* split_at returns what self retains and the new table (Vec::split_off).
split_at(self, offset) ==
    [keys |-> [i \in 1..offset |-> self[i]],
     table |-> [i \in 1..(Len(self) - offset) |-> self[offset + i]]]

is_disjoint(self, table) ==
    {self[i] : i \in 1..Len(self)} \cap {table[i] : i \in 1..Len(table)} = {}

\* get_key returns NoKey for None.
get_key(self, i) == IF i >= 0 /\ i < Len(self) THEN self[i + 1] ELSE NoKey

(***************************************************************************)
(* token/third_party.rs.  A Request is {previous_key, public_keys,         *)
(* builder}; the builder's facts are single bytes here, and the block's    *)
(* wire encoding is a length byte followed by the facts.                   *)
(***************************************************************************)
RECURSIVE insert_all(_, _)
\* `for key in data.public_keys { public_keys.insert(&from_proto(&key)?) }`
insert_all(table, protos) ==
    IF protos = <<>> THEN Ok(table)
    ELSE LET k == ed25519_PublicKey_from_proto(Head(protos))
         IN IF ~k.ok THEN Err(k.err)
            ELSE insert_all(insert(table, k.val).keys, Tail(protos))

Request_deserialize(data) ==
    LET previous_key == ed25519_PublicKey_from_proto(data.previous_key)
        public_keys == insert_all(PublicKeys_new, data.public_keys)
    IN IF ~previous_key.ok THEN Err(previous_key.err)
       ELSE IF ~public_keys.ok THEN Err(public_keys.err)
       ELSE Ok([previous_key |-> previous_key.val,
                public_keys |-> public_keys.val,
                builder |-> <<>>])

\* token_block_to_proto_block(&block).encode(&mut v): the block's bytes.
encode_block(builder) == <<Len(builder)>> \o builder

\* create_response, had it left the predecessor key out of the signed bytes.
create_response_unbound(self, private_key) ==
    LET payload == encode_block(self.builder)
        keypair == ed25519_KeyPair_from(private_key)
    IN Ok([payload |-> payload,
           external_signature |->
               [signature |-> try_sign(keypair.public,
                                  payload \o to_le_bytes(AlgorithmTag("Ed25519"), 4)),
                public_key |-> ed25519_PublicKey_to_proto(ed25519_KeyPair_public(keypair))]])

create_response(self, private_key) ==
    LET payload == encode_block(self.builder)
        v == payload \o to_le_bytes(AlgorithmTag("Ed25519"), 4)
                     \o ed25519_PublicKey_to_bytes(self.previous_key)
        keypair == ed25519_KeyPair_from(private_key)
        signature == try_sign(keypair.public, v)
        public_key == ed25519_KeyPair_public(keypair)
    IN Ok([payload |-> payload,
           external_signature |->
               [signature |-> signature,
                public_key |-> ed25519_PublicKey_to_proto(public_key)]])

\* The caller's check of a response before splicing it: the embedded public
\* key verifies the signature over payload ++ tag ++ previous_key bytes.
verify_external_signature(content, previous_key) ==
    LET public_key == ed25519_PublicKey_from_proto(content.external_signature.public_key)
    IN IF ~public_key.ok THEN Err(public_key.err)
       ELSE ed25519_PublicKey_verify_signature(
                public_key.val,
                content.payload \o to_le_bytes(AlgorithmTag("Ed25519"), 4)
                                \o ed25519_PublicKey_to_bytes(previous_key),
                content.external_signature.signature)

(***************************************************************************)
(* The block signature chain.  A block is {payload, next_key, signature};  *)
(* its signature covers payload ++ 4-byte little-endian algorithm tag of   *)
(* next_key ++ next_key bytes.                                             *)
(***************************************************************************)
\* The bytes a block's signature covers.
block_signed_bytes(payload, next_key) ==
    payload \o to_le_bytes(AlgorithmTag(next_key.algorithm), 4)
            \o PublicKey_to_bytes(next_key)

\* Sign a new block with the current keypair, declaring the next signer.
sign_block(keypair, payload, next_key) ==
    [payload |-> payload,
     next_key |-> next_key,
     signature |-> KeyPair_sign(keypair, block_signed_bytes(payload, next_key)).val]

\* The key block i (1-based) is verified with: the root key for the first
\* block, else the next key read from the block before it.
current_key(blocks, root_key, i) ==
    IF i = 1 THEN root_key ELSE blocks[i - 1].next_key

verify_block(blocks, root_key, i) ==
    PublicKey_verify_signature(current_key(blocks, root_key, i),
                               block_signed_bytes(blocks[i].payload, blocks[i].next_key),
                               blocks[i].signature)

\* The 0-based indices of the blocks whose own check fails.
failing_blocks(blocks, root_key) ==
    {i - 1 : i \in {j \in 1..Len(blocks) : ~verify_block(blocks, root_key, j).ok}}

\* The chain walk, fail-fast: the first failing block's error and index.
verify_chain(blocks, root_key) ==
    LET bad == {j \in 1..Len(blocks) : ~verify_block(blocks, root_key, j).ok}
    IN IF bad = {} THEN Ok(<<>>)
       ELSE LET first == CHOOSE j \in bad : \A k \in bad : j <= k
            IN ErrWith(verify_block(blocks, root_key, first).err, <<first - 1>>)

(***************************************************************************)
(* The symbol table and the fact/policy conversions the snapshot calls.    *)
(* A datalog fact is the index of its symbol; a builder-level fact or      *)
(* policy is the symbol's string.                                          *)
(***************************************************************************)
\* Symbols every table starts with; they sit below OFFSET.
DEFAULT_SYMBOLS == <<"read", "write">>
\* The index of the first symbol that is not a default one.
OFFSET == 1024

default_symbol_table == [symbols |-> <<>>, public_keys |-> PublicKeys_new]

\* SymbolTable::insert: the index of s, appended when new.
SymbolTable_insert(table, s) ==
    IF \E i \in 1..Len(DEFAULT_SYMBOLS) : DEFAULT_SYMBOLS[i] = s
    THEN [table |-> table,
          index |-> (CHOOSE i \in 1..Len(DEFAULT_SYMBOLS) : DEFAULT_SYMBOLS[i] = s) - 1]
    ELSE IF \E i \in 1..Len(table.symbols) : table.symbols[i] = s
    THEN [table |-> table,
          index |-> OFFSET - 1 + (CHOOSE i \in 1..Len(table.symbols) : table.symbols[i] = s)]
    ELSE [table |-> [table EXCEPT !.symbols = Append(@, s)],
          index |-> OFFSET + Len(table.symbols)]

\* SymbolTable::print_symbol: the string an index denotes, or UnknownSymbol.
print_symbol(table, i) ==
    IF i >= 0 /\ i < Len(DEFAULT_SYMBOLS) THEN Ok(DEFAULT_SYMBOLS[i + 1])
    ELSE IF i >= OFFSET /\ i - OFFSET < Len(table.symbols)
    THEN Ok(table.symbols[i - OFFSET + 1])
    ELSE Err("UnknownSymbol")

RECURSIVE insert_symbols(_, _)
\* `for symbol in symbols { table.insert(&symbol) }`
insert_symbols(table, strings) ==
    IF strings = <<>> THEN table
    ELSE insert_symbols(SymbolTable_insert(table, Head(strings)).table, Tail(strings))

\* SymbolTable::extend: appends symbols the table must not hold yet.
SymbolTable_extend(table, strings) ==
    IF \E i \in 1..Len(strings) :
          \/ \E j \in 1..Len(table.symbols) : table.symbols[j] = strings[i]
          \/ \E j \in 1..Len(DEFAULT_SYMBOLS) : DEFAULT_SYMBOLS[j] = strings[i]
    THEN Err("SymbolTableOverlap")
    ELSE Ok([table EXCEPT !.symbols = @ \o strings])

RECURSIVE convert_all(_, _)
\* x.convert(&mut symbols) over a list of builder-level facts or policies:
\* the table after the inserts and the indices.
convert_all(strings, table) ==
    IF strings = <<>> THEN [table |-> table, facts |-> <<>>]
    ELSE LET first == SymbolTable_insert(table, Head(strings))
             rest == convert_all(Tail(strings), first.table)
         IN [table |-> rest.table, facts |-> <<first.index>> \o rest.facts]

RECURSIVE convert_from_all(_, _)
\* X::convert_from(&x, &symbols) over a list of facts or policies: their
\* strings, or the first lookup error.
convert_from_all(facts, table) ==
    IF facts = <<>> THEN Ok(<<>>)
    ELSE LET first == print_symbol(table, Head(facts))
             rest == convert_from_all(Tail(facts), table)
         IN IF ~first.ok THEN Err(first.err)
            ELSE IF ~rest.ok THEN Err(rest.err)
            ELSE Ok(<<first.val>> \o rest.val)

\* BlockBuilder::build(symbols): the facts in the given symbol space, and
\* the symbols the block adds to it.
BlockBuilder_build(builder, table) ==
    LET r == convert_all(builder, table)
    IN [symbols |-> SubSeq(r.table.symbols, Len(table.symbols) + 1, Len(r.table.symbols)),
        public_keys |-> PublicKeys_new,
        facts |-> r.facts,
        checks |-> <<>>,
        external_key |-> NoKey]

\* BlockBuilder::convert_from(&block, &symbols)
BlockBuilder_convert_from(block, table) == convert_from_all(block.facts, table)

\* token_block_to_proto_block: the wire block carries no external key.
token_block_to_proto_block(block) ==
    [symbols |-> block.symbols, facts |-> block.facts, checks |-> block.checks]

\* proto_block_to_token_block(&block, external_key)
proto_block_to_token_block(block, external_key) ==
    Ok([symbols |-> block.symbols,
        public_keys |-> PublicKeys_new,
        facts |-> block.facts,
        checks |-> block.checks,
        external_key |-> external_key])

(***************************************************************************)
(* Origins.                                                                *)
(***************************************************************************)
\* The origin that stands for the authorizer itself.
usize_MAX == 2147483647

RECURSIVE SortedSeq(_)
\* A set of numbers in ascending order (BTreeSet iteration).
SortedSeq(set) ==
    IF set = {} THEN <<>>
    ELSE LET least == CHOOSE x \in set : \A y \in set : x <= y
         IN <<least>> \o SortedSeq(set \ {least})

authorizer_origin_to_proto_origin(origin) ==
    [i \in 1..Cardinality(origin) |->
        IF SortedSeq(origin)[i] = usize_MAX
        THEN [content |-> "authorizer", flag |-> TRUE, index |-> 0]
        ELSE [content |-> "origin", flag |-> FALSE, index |-> SortedSeq(origin)[i]]]

\* The conversion with an authorizer flag set to false read as the authorizer.
proto_origin_to_authorizer_origin_lenient(origins) ==
    IF \E i \in 1..Len(origins) :
          ~ \/ origins[i].content = "authorizer"
            \/ origins[i].content = "origin"
    THEN Err("DeserializationError")
    ELSE Ok({IF origins[i].content = "authorizer" THEN usize_MAX ELSE origins[i].index :
                 i \in 1..Len(origins)})

proto_origin_to_authorizer_origin(origins) ==
    IF \E i \in 1..Len(origins) :
          ~ \/ origins[i].content = "authorizer" /\ origins[i].flag
            \/ origins[i].content = "origin"
    THEN Err("DeserializationError")
    ELSE Ok({IF origins[i].content = "authorizer" THEN usize_MAX ELSE origins[i].index :
                 i \in 1..Len(origins)})

\* TrustedOrigins::from_scopes(&[Scope::Previous], &default, current_block, ..):
\* the authorizer and every block up to the current one.
TrustedOrigins_previous(current_block) == {usize_MAX} \cup 0..current_block

(***************************************************************************)
(* The authorizer.  `world` holds the facts as (origin, fact) pairs, the   *)
(* fact being an index into the authorizer's own symbol table; the hash    *)
(* maps are sets of (key, value) pairs with one pair per key.              *)
(***************************************************************************)
MIN_SCHEMA_VERSION == 3
MAX_SCHEMA_VERSION == 4

\* HashMap::insert
map_insert(map, k, v) == {e \in map : e[1] # k} \cup {<<k, v>>}
\* HashMap::entry(k).or_default().push(x)
map_push(map, k, x) ==
    IF \E e \in map : e[1] = k
    THEN {IF e[1] = k THEN <<k, Append(e[2], x)>> ELSE e : e \in map}
    ELSE map \cup {<<k, <<x>>>>}
\* HashMap::get, of a map to public keys (NoKey for None)
map_get_key(map, k) ==
    IF \E e \in map : e[1] = k THEN (CHOOSE e \in map : e[1] = k)[2] ELSE NoKey

\* The iteration order of a hash map over numeric keys: unspecified, here
\* ascending or descending.
HashOrder(ks, descending) ==
    [i \in 1..Cardinality(ks) |->
        IF descending THEN SortedSeq(ks)[Cardinality(ks) + 1 - i] ELSE SortedSeq(ks)[i]]

Authorizer_new ==
    [symbols |-> default_symbol_table,
     authorizer_block_builder |-> <<>>,
     policies |-> <<>>,
     has_blocks |-> FALSE,
     blocks |-> <<>>,
     world |-> {},
     public_key_to_block_id |-> {},
     token_origins |-> {0, usize_MAX}]

\* Authorizer::add_block(&mut block, i, &token_symbols): block i's facts
\* enter the world under origin {i}, translated from the table that
\* interprets the block (its own, for a third-party block) to the
\* authorizer's.
add_block(authorizer, block, i, token_symbols) ==
    LET block_symbols == IF i = 0 \/ block.external_key = NoKey
                         THEN token_symbols
                         ELSE [symbols |-> block.symbols, public_keys |-> PublicKeys_new]
        names == convert_from_all(block.facts, block_symbols)
        r == convert_all(names.val, authorizer.symbols)
    IN IF ~names.ok THEN [ok |-> FALSE, err |-> names.err, authorizer |-> authorizer]
       ELSE [ok |-> TRUE, err |-> "",
             authorizer |-> [authorizer EXCEPT
                                !.symbols = r.table,
                                !.world = @ \cup {<<{i}, r.facts[j]>> : j \in 1..Len(r.facts)}]]

RECURSIVE register_external_keys(_, _, _)
\* add_token's first loop: intern each block's external key and record the
\* block under the key's index.
register_external_keys(authorizer, blocks, i) ==
    IF i >= Len(blocks) THEN authorizer
    ELSE IF blocks[i + 1].external_key = NoKey
    THEN register_external_keys(authorizer, blocks, i + 1)
    ELSE LET r == insert(authorizer.symbols.public_keys, blocks[i + 1].external_key)
         IN register_external_keys(
                [authorizer EXCEPT
                    !.symbols.public_keys = r.keys,
                    !.public_key_to_block_id = map_push(@, r.ret, i)],
                blocks, i + 1)

RECURSIVE add_blocks(_, _, _, _)
\* add_token's second loop.
add_blocks(authorizer, blocks, i, token_symbols) ==
    IF i >= Len(blocks) THEN [ok |-> TRUE, err |-> "", authorizer |-> authorizer]
    ELSE LET r == add_block(authorizer, blocks[i + 1], i, token_symbols)
         IN IF ~r.ok THEN r ELSE add_blocks(r.authorizer, blocks, i + 1, token_symbols)

\* Authorizer::add_token(&token)
add_token(authorizer, token) ==
    IF authorizer.has_blocks
    THEN [ok |-> FALSE, err |-> "AuthorizerNotEmpty", authorizer |-> authorizer]
    ELSE LET r == add_blocks(register_external_keys(authorizer, token.blocks, 0),
                             token.blocks, 0, token.symbols)
         IN IF ~r.ok THEN [ok |-> FALSE, err |-> r.err, authorizer |-> authorizer]
            ELSE [ok |-> TRUE, err |-> "",
                  authorizer |-> [r.authorizer EXCEPT
                                     !.has_blocks = TRUE,
                                     !.blocks = token.blocks,
                                     !.token_origins =
                                         TrustedOrigins_previous(Len(token.blocks))]]

\* Authorizer::authorize, as far as the fact store goes: the authorizer's
\* own facts enter the world under the authorizer origin.
load_authorizer_facts(authorizer) ==
    LET r == convert_all(authorizer.authorizer_block_builder, authorizer.symbols)
    IN [authorizer EXCEPT
           !.symbols = r.table,
           !.world = @ \cup {<<{usize_MAX}, r.facts[j]>> : j \in 1..Len(r.facts)}]

(***************************************************************************)
(* token/authorizer/snapshot.rs                                            *)
(***************************************************************************)
WorldOrigins(world) == {e[1] : e \in world}
LeastOf(origin) == CHOOSE x \in origin : \A y \in origin : x <= y

\* `self.world.facts.inner.iter().map(..)`: one record per origin, the
\* facts as stored (indices into self.symbols).
generated_facts_of(world, descending) ==
    LET order == HashOrder({LeastOf(o) : o \in WorldOrigins(world)}, descending)
    IN [i \in 1..Len(order) |->
           LET origin == CHOOSE o \in WorldOrigins(world) : LeastOf(o) = order[i]
           IN [origins |-> authorizer_origin_to_proto_origin(origin),
               facts |-> SortedSeq({e[2] : e \in {w \in world : w[1] = origin}})]]

\* The loop over self.public_key_to_block_id.
public_key_map_of(self, descending) ==
    LET order == HashOrder({e[1] : e \in self.public_key_to_block_id}, descending)
    IN IF \E i \in 1..Len(order) : get_key(self.symbols.public_keys, order[i]) = NoKey
       THEN Err("UnknownExternalKey")
       ELSE Ok([i \in 1..Len(order) |->
                   [key |-> ed25519_PublicKey_to_proto(
                                get_key(self.symbols.public_keys, order[i])),
                    block_ids |->
                        (CHOOSE e \in self.public_key_to_block_id : e[1] = order[i])[2]]])

\* Authorizer::snapshot(&self); `descending` is the hash maps' iteration order.
snapshot(self, descending) ==
    LET p == convert_all(self.policies, default_symbol_table)
        authorizer_block == BlockBuilder_build(self.authorizer_block_builder, p.table)
        symbols == SymbolTable_extend(p.table, authorizer_block.symbols)
        public_key_map == public_key_map_of(self, descending)
    IN IF ~symbols.ok THEN Err(symbols.err)
       ELSE IF ~public_key_map.ok THEN Err(public_key_map.err)
       ELSE Ok([version |-> [some |-> TRUE, value |-> MAX_SCHEMA_VERSION],
                symbols |-> symbols.val.symbols,
                blocks |-> [i \in 1..Len(self.blocks) |->
                               token_block_to_proto_block(self.blocks[i])],
                authorizer_block |-> token_block_to_proto_block(authorizer_block),
                generated_facts |-> generated_facts_of(self.world, descending),
                policies |-> p.facts,
                public_key_map |-> public_key_map.val])

\* The version check with the upper bound excluded.
version_check_exclusive(input) ==
    LET version == IF input.version.some THEN input.version.value ELSE 0
    IN IF ~(version >= MIN_SCHEMA_VERSION /\ version < MAX_SCHEMA_VERSION)
       THEN ErrWith("Version", <<MIN_SCHEMA_VERSION, MAX_SCHEMA_VERSION, version>>)
       ELSE Ok(<<>>)

\* from_snapshot's version check: a Version error unless the version is in range.
version_check(input) ==
    LET version == IF input.version.some THEN input.version.value ELSE 0
    IN IF ~(version >= MIN_SCHEMA_VERSION /\ version <= MAX_SCHEMA_VERSION)
       THEN ErrWith("Version", <<MIN_SCHEMA_VERSION, MAX_SCHEMA_VERSION, version>>)
       ELSE Ok(<<>>)

RECURSIVE load_key_map(_, _, _, _)
\* from_snapshot's loop over input.public_key_map: the public-key table, the
\* key-index -> block-ids map and the block-id -> key map it leaves.
load_key_map(key_map, public_keys, public_key_to_block_id, external_keys) ==
    IF key_map = <<>>
    THEN [ok |-> TRUE, err |-> "", public_keys |-> public_keys,
          public_key_to_block_id |-> public_key_to_block_id,
          external_keys |-> external_keys]
    ELSE LET public_key == ed25519_PublicKey_from_proto(Head(key_map).key)
             r == insert(public_keys, public_key.val)
             block_ids == Head(key_map).block_ids
         IN IF ~public_key.ok
            THEN [ok |-> FALSE, err |-> public_key.err, public_keys |-> public_keys,
                  public_key_to_block_id |-> public_key_to_block_id,
                  external_keys |-> external_keys]
            ELSE load_key_map(
                     Tail(key_map), r.keys,
                     map_insert(public_key_to_block_id, r.ret, block_ids),
                     {e \in external_keys :
                          \A j \in 1..Len(block_ids) : block_ids[j] # e[1]}
                         \cup {<<block_ids[j], public_key.val>> : j \in 1..Len(block_ids)})

RECURSIVE load_blocks_absorbing(_, _, _, _, _)
\* The loop over input.blocks with every block's symbols added to token_symbols.
load_blocks_absorbing(authorizer, blocks, i, token_symbols, external_keys) ==
    IF i >= Len(blocks)
    THEN [ok |-> TRUE, err |-> "", authorizer |-> authorizer,
          token_symbols |-> token_symbols]
    ELSE LET symbols == insert_symbols(token_symbols, blocks[i + 1].symbols)
             block == proto_block_to_token_block(blocks[i + 1],
                                                 map_get_key(external_keys, i))
             r == add_block(authorizer, block.val, i, symbols)
         IN IF ~r.ok
            THEN [ok |-> FALSE, err |-> r.err, authorizer |-> authorizer,
                  token_symbols |-> symbols]
            ELSE load_blocks_absorbing(
                     [r.authorizer EXCEPT !.blocks = Append(@, block.val)],
                     blocks, i + 1, symbols, external_keys)

RECURSIVE load_blocks(_, _, _, _, _)
\* from_snapshot's loop over input.blocks: a block with no external key adds
\* its symbols to token_symbols; every block goes through add_block.
load_blocks(authorizer, blocks, i, token_symbols, external_keys) ==
    IF i >= Len(blocks)
    THEN [ok |-> TRUE, err |-> "", authorizer |-> authorizer,
          token_symbols |-> token_symbols]
    ELSE LET symbols == IF map_get_key(external_keys, i) = NoKey
                        THEN insert_symbols(token_symbols, blocks[i + 1].symbols)
                        ELSE token_symbols
             block == proto_block_to_token_block(blocks[i + 1],
                                                 map_get_key(external_keys, i))
             r == add_block(authorizer, block.val, i, symbols)
         IN IF ~r.ok
            THEN [ok |-> FALSE, err |-> r.err, authorizer |-> authorizer,
                  token_symbols |-> symbols]
            ELSE load_blocks([r.authorizer EXCEPT !.blocks = Append(@, block.val)],
                             blocks, i + 1, symbols, external_keys)

RECURSIVE load_generated_facts(_, _, _)
\* from_snapshot's loop over input.generated_facts: each fact is read in
\* token_symbols, written in the authorizer's table and stored under the
\* record's origin.
load_generated_facts(authorizer, generated_facts, token_symbols) ==
    IF generated_facts = <<>> THEN [ok |-> TRUE, err |-> "", authorizer |-> authorizer]
    ELSE LET origin == proto_origin_to_authorizer_origin(Head(generated_facts).origins)
             names == convert_from_all(Head(generated_facts).facts, token_symbols)
             r == convert_all(names.val, authorizer.symbols)
         IN IF ~origin.ok THEN [ok |-> FALSE, err |-> origin.err, authorizer |-> authorizer]
            ELSE IF ~names.ok
            THEN [ok |-> FALSE, err |-> names.err, authorizer |-> authorizer]
            ELSE load_generated_facts(
                     [authorizer EXCEPT
                         !.symbols = r.table,
                         !.world = @ \cup {<<origin.val, r.facts[j]>> :
                                               j \in 1..Len(r.facts)}],
                     Tail(generated_facts), token_symbols)

\* A failed from_snapshot; token_symbols is the table as the call left it.
Failed(err, detail) ==
    [ok |-> FALSE, err |-> err, detail |-> detail, authorizer |-> Authorizer_new,
     token_symbols |-> default_symbol_table]

\* Authorizer::from_snapshot(input): the restored authorizer, with the
\* token_symbols table the call built on the way.
from_snapshot(input) ==
    LET version == version_check(input)
        symbols == insert_symbols(default_symbol_table, input.symbols)
        keys == load_key_map(input.public_key_map, symbols.public_keys, {}, {})
        table == [symbols EXCEPT !.public_keys = keys.public_keys]
        authorizer_block == proto_block_to_token_block(input.authorizer_block, NoKey)
        authorizer_block_builder == BlockBuilder_convert_from(authorizer_block.val, table)
        policies == convert_from_all(input.policies, table)
        authorizer == [Authorizer_new EXCEPT
                          !.symbols = table,
                          !.authorizer_block_builder = authorizer_block_builder.val,
                          !.policies = policies.val,
                          !.public_key_to_block_id = keys.public_key_to_block_id]
        loaded == load_blocks(authorizer, input.blocks, 0, default_symbol_table,
                              keys.external_keys)
        with_blocks == IF loaded.authorizer.blocks # <<>>
                       THEN [loaded.authorizer EXCEPT
                                !.has_blocks = TRUE,
                                !.token_origins =
                                    TrustedOrigins_previous(Len(loaded.authorizer.blocks))]
                       ELSE loaded.authorizer
        facts == load_generated_facts(with_blocks, input.generated_facts,
                                      loaded.token_symbols)
    IN IF ~version.ok THEN Failed(version.err, version.detail)
       ELSE IF ~keys.ok THEN Failed(keys.err, <<>>)
       ELSE IF ~authorizer_block_builder.ok THEN Failed(authorizer_block_builder.err, <<>>)
       ELSE IF ~policies.ok THEN Failed(policies.err, <<>>)
       ELSE IF ~loaded.ok
       THEN [Failed(loaded.err, <<>>) EXCEPT !.token_symbols = loaded.token_symbols]
       ELSE IF ~facts.ok
       THEN [Failed(facts.err, <<>>) EXCEPT !.token_symbols = loaded.token_symbols]
       ELSE [ok |-> TRUE, err |-> "", detail |-> <<>>, authorizer |-> facts.authorizer,
             token_symbols |-> loaded.token_symbols]

(***************************************************************************)
(* State.                                                                  *)
(***************************************************************************)
VARIABLES
    \* the interning table under test, the table split off it, the last
    \* operation on it, and the table as it was before the last split_at
    keys, other, op, T, phase,
    \* a generated keypair, its decoded halves, a signature, a verification
    \* result and the last from_proto call
    kp, dec, sig, vres, pres,
    \* a third-party block request, the response made from it (with the
    \* private key that made it), the response and predecessor key as
    \* presented to the verifier, and the verifier's verdict
    request, response, presented, verdict,
    \* a token's block chain with its root keypair and the keypair that
    \* signs the next block, the block list and root key handed to chain
    \* verification, and the verification's outcome
    chain, root, next, mutated, outcome,
    \* a live authorizer, the snapshot message handed to from_snapshot (with
    \* what was changed in it after snapshot() made it), and from_snapshot's
    \* result
    authorizer, input, restored,
    \* the last conversion between wire origin tags and an Origin
    conv,
    \* what the generated keypair and its halves report about their algorithm
    reported

keysVars == <<keys, other, op, T, phase>>
cryptoVars == <<kp, dec, sig, vres, pres>>
tpVars == <<request, response, presented, verdict>>
chainVars == <<chain, root, next, mutated, outcome>>
snapshotVars == <<authorizer, input, restored>>
vars == <<keysVars, cryptoVars, tpVars, chainVars, snapshotVars, conv, reported>>
exceptKeys == <<cryptoVars, tpVars, chainVars, snapshotVars, conv, reported>>
exceptCrypto == <<keysVars, tpVars, chainVars, snapshotVars, conv, reported>>
exceptThirdParty == <<keysVars, cryptoVars, chainVars, snapshotVars, conv, reported>>
exceptChain == <<keysVars, cryptoVars, tpVars, snapshotVars, conv, reported>>
exceptSnapshot == <<keysVars, cryptoVars, tpVars, chainVars, conv, reported>>
exceptOrigin == <<keysVars, cryptoVars, tpVars, chainVars, snapshotVars, reported>>

\* The public keys the tables intern: generated keys of both algorithms.
KeyPool ==
    {KeyPair_public(KeyPair_new_with_rng("Ed25519", s)) : s \in 1..MaxKey}
        \cup {KeyPair_public(KeyPair_new_with_rng("P256", 1))}

NoOp == [name |-> "new", k |-> NoKey, offset |-> 0, ret |-> 0, before |-> <<>>]

InitKeys ==
    /\ keys = PublicKeys_new
    /\ other = PublicKeys_new
    /\ op = NoOp
    /\ T = <<>>
    /\ phase = "none"

NoKeyPair == [algorithm |-> "none", secret |-> <<>>, public |-> NoKey]
NoDecoded == [via |-> "none", private |-> Err("none"), public |-> Err("none")]
NoProto == [type |-> "none", key |-> [algorithm |-> 0, key |-> <<>>], result |-> Err("none")]

InitCrypto ==
    /\ kp = NoKeyPair
    /\ dec = NoDecoded
    /\ sig = [data |-> <<>>, signature |-> NoSignature]
    /\ vres = Err("none")
    /\ pres = NoProto

\* Ed25519 public keys (the key type of the third-party protocol).
EdKeys == {KeyPair_public(KeyPair_new_with_rng("Ed25519", s)) : s \in 1..MaxKey}
\* Ed25519 private keys a third party may hold.
EdPrivateKeys ==
    {ed25519_KeyPair_private(ed25519_KeyPair_new_with_rng(s)) : s \in 1..MaxSeed}

NoRequest == [previous_key |-> NoKey, public_keys |-> <<>>, builder |-> <<>>]
NoContent ==
    [payload |-> <<>>,
     external_signature |->
         [signature |-> NoSignature, public_key |-> [algorithm |-> 0, key |-> <<>>]]]

InitThirdParty ==
    /\ request = [ok |-> FALSE, err |-> "none", val |-> NoRequest]
    /\ response = [made |-> FALSE, content |-> NoContent, private_key |-> NoSecret]
    /\ presented = [content |-> NoContent, previous_key |-> NoKey, tamper |-> "none"]
    /\ verdict = Err("none")

NoMutation == [kind |-> "unset", index |-> 0, blocks |-> <<>>, root |-> NoKey]
NoOutcome == [checked |-> FALSE, result |-> Err("none"), failing |-> {}]

InitChain ==
    /\ chain = <<>>
    /\ root = NoKeyPair
    /\ next = NoKeyPair
    /\ mutated = NoMutation
    /\ outcome = NoOutcome

NoSnapshot ==
    [version |-> [some |-> FALSE, value |-> 0],
     symbols |-> <<>>,
     blocks |-> <<>>,
     authorizer_block |-> [symbols |-> <<>>, facts |-> <<>>, checks |-> <<>>],
     generated_facts |-> <<>>,
     policies |-> <<>>,
     public_key_map |-> <<>>]
NoInput == [made |-> FALSE, tamper |-> "none", val |-> NoSnapshot]
NoRestored == [done |-> FALSE, run |-> Failed("none", <<>>)]

InitSnapshot ==
    /\ authorizer = Authorizer_new
    /\ input = NoInput
    /\ restored = NoRestored

NoConversion ==
    [op |-> "none", tags |-> <<>>, origin |-> {}, result |-> Err("none"),
     restore |-> [ok |-> FALSE, err |-> "none", world |-> {}]]

InitOrigin == conv = NoConversion

NoDescription ==
    [of |-> NoKeyPair, keypair |-> "none", private |-> "none", public |-> "none",
     proto |-> 0 - 1, print |-> "none"]

InitDescription == reported = NoDescription

Init ==
    /\ InitKeys /\ InitCrypto /\ InitThirdParty /\ InitChain /\ InitSnapshot
    /\ InitOrigin /\ InitDescription

(***************************************************************************)
(* Operations on the interning table.                                      *)
(***************************************************************************)
\* PublicKeys::from(keys), on a table under construction.
From ==
    /\ op.name = "new"
    /\ \E k1 \in KeyPool, k2 \in KeyPool, n \in 1..2 :
          LET ks == SubSeq(<<k1, k2>>, 1, n)
          IN /\ keys' = PublicKeys_from(ks)
             /\ op' = [name |-> "from", k |-> NoKey, offset |-> 0, ret |-> 0,
                       before |-> keys]
    /\ phase' = "none"
    /\ UNCHANGED <<other, T, exceptKeys>>

\* self.insert(&k)
Insert ==
    /\ \E k \in KeyPool :
          /\ position(keys, k) >= 0 \/ Len(keys) < MaxTable
          /\ keys' = insert(keys, k).keys
          /\ op' = [name |-> "insert", k |-> k, offset |-> 0,
                    ret |-> insert(keys, k).ret, before |-> keys]
    /\ phase' = "none"
    /\ UNCHANGED <<other, T, exceptKeys>>

\* self.extend(&other)
Extend ==
    /\ Len(keys) + Len(other) <= MaxTable
    /\ keys' = extend(keys, other)
    /\ op' = [name |-> "extend", k |-> NoKey, offset |-> 0, ret |-> 0, before |-> keys]
    /\ phase' = IF phase = "split" THEN "joined" ELSE "none"
    /\ UNCHANGED <<other, T, exceptKeys>>

\* other = self.split_at(offset); an offset past the end panics.
SplitAt ==
    /\ \E offset \in 0..Len(keys) :
          /\ keys' = split_at(keys, offset).keys
          /\ other' = split_at(keys, offset).table
          /\ op' = [name |-> "split_at", k |-> NoKey, offset |-> offset, ret |-> 0,
                    before |-> keys]
    /\ T' = keys
    /\ phase' = "split"
    /\ UNCHANGED exceptKeys

(***************************************************************************)
(* Operations on keys.                                                     *)
(***************************************************************************)
\* KeyPair::new_with_rng(rng), of either algorithm.
Generate ==
    /\ \E alg \in Algorithms, seed \in 1..MaxSeed :
          kp' = KeyPair_new_with_rng(alg, seed)
    /\ dec' = NoDecoded
    /\ sig' = [data |-> <<>>, signature |-> NoSignature]
    /\ vres' = Err("none")
    /\ pres' = NoProto
    /\ UNCHANGED exceptCrypto

\* PrivateKey::from_bytes(&private.to_bytes()), PublicKey::from_bytes(&public.to_bytes())
DecodeBytes ==
    /\ kp # NoKeyPair
    /\ dec' = [via |-> "bytes",
               private |-> PrivateKey_from_bytes(kp.algorithm,
                               PrivateKey_to_bytes(KeyPair_private(kp))),
               public |-> PublicKey_from_bytes(kp.algorithm,
                               PublicKey_to_bytes(KeyPair_public(kp)))]
    /\ vres' = Err("none")
    /\ UNCHANGED <<kp, sig, pres, exceptCrypto>>

\* PrivateKey::from_bytes_hex(&private.to_bytes_hex()), and the public half alike
DecodeHex ==
    /\ kp # NoKeyPair
    /\ dec' = [via |-> "hex",
               private |-> PrivateKey_from_bytes_hex(kp.algorithm,
                               PrivateKey_to_bytes_hex(KeyPair_private(kp))),
               public |-> PublicKey_from_bytes_hex(kp.algorithm,
                               PublicKey_to_bytes_hex(KeyPair_public(kp)))]
    /\ vres' = Err("none")
    /\ UNCHANGED <<kp, sig, pres, exceptCrypto>>

\* kp.sign(message)
Sign ==
    /\ kp # NoKeyPair
    /\ \E data \in Messages :
          /\ KeyPair_sign(kp, data).ok
          /\ sig' = [data |-> data, signature |-> KeyPair_sign(kp, data).val]
    /\ vres' = Err("none")
    /\ UNCHANGED <<kp, dec, pres, exceptCrypto>>

\* deserialized_pub.verify_signature(message, &signature)
Verify ==
    /\ dec.public.ok
    /\ sig.signature # NoSignature
    /\ vres' = PublicKey_verify_signature(dec.public.val, sig.data, sig.signature)
    /\ UNCHANGED <<kp, dec, sig, pres, exceptCrypto>>

\* PublicKey::from_proto(&key) of either key type, on a key message whose
\* bytes are the encoding of a generated key, whole or truncated.
FromProto ==
    /\ kp # NoKeyPair
    /\ \E type \in Algorithms, tag \in 0..2,
          bytes \in {PublicKey_to_bytes(KeyPair_public(kp)),
                     Tail(PublicKey_to_bytes(KeyPair_public(kp)))} :
          pres' = [type |-> type, key |-> [algorithm |-> tag, key |-> bytes],
                   result |-> PublicKey_from_proto(type, [algorithm |-> tag, key |-> bytes])]
    /\ UNCHANGED <<kp, dec, sig, vres, exceptCrypto>>

\* kp.algorithm(), kp.private().algorithm(), kp.public().algorithm(),
\* kp.public().to_proto().algorithm and kp.public().print(), each by the
\* key type's own method.
Describe ==
    /\ kp # NoKeyPair
    /\ reported.of # kp
    /\ reported' =
          IF kp.algorithm = "Ed25519"
          THEN [of |-> kp,
                keypair |-> ed25519_KeyPair_algorithm(kp),
                private |-> ed25519_PrivateKey_algorithm(ed25519_KeyPair_private(kp)),
                public |-> ed25519_PublicKey_algorithm(ed25519_KeyPair_public(kp)),
                proto |-> ed25519_PublicKey_to_proto(ed25519_KeyPair_public(kp)).algorithm,
                print |-> ed25519_PublicKey_print(ed25519_KeyPair_public(kp)).algorithm]
          ELSE [of |-> kp,
                keypair |-> p256_KeyPair_algorithm(kp),
                private |-> p256_PrivateKey_algorithm(p256_KeyPair_private(kp)),
                public |-> p256_PublicKey_algorithm(p256_KeyPair_public(kp)),
                proto |-> p256_PublicKey_to_proto(p256_KeyPair_public(kp)).algorithm,
                print |-> p256_PublicKey_print(p256_KeyPair_public(kp)).algorithm]
    /\ UNCHANGED <<keysVars, cryptoVars, tpVars, chainVars, snapshotVars, conv>>

NextCrypto ==
    Generate \/ DecodeBytes \/ DecodeHex \/ Sign \/ Verify \/ FromProto \/ Describe

SpecCrypto == Init /\ [][NextCrypto]_vars

(***************************************************************************)
(* The third-party block handshake.                                        *)
(***************************************************************************)
\* Request::deserialize(slice), on a decoded ThirdPartyBlockRequest.
Deserialize ==
    /\ \E prev \in EdKeys \cup {KeyPair_public(KeyPair_new_with_rng("P256", 1))},
          k1 \in EdKeys, n \in 0..2 :
          LET data == [previous_key |->
                           IF prev.algorithm = "Ed25519"
                           THEN ed25519_PublicKey_to_proto(prev)
                           ELSE [algorithm |-> AlgorithmTag("P256"),
                                 key |-> PublicKey_to_bytes(prev)],
                       public_keys |->
                           [i \in 1..n |-> ed25519_PublicKey_to_proto(k1)]]
              r == Request_deserialize(data)
          IN request' = [ok |-> r.ok, err |-> r.err,
                         val |-> IF r.ok THEN r.val ELSE NoRequest]
    /\ response' = [made |-> FALSE, content |-> NoContent, private_key |-> NoSecret]
    /\ presented' = [content |-> NoContent, previous_key |-> NoKey, tamper |-> "none"]
    /\ verdict' = Err("none")
    /\ UNCHANGED exceptThirdParty

\* request.add_fact(..), through DerefMut to the block builder.
AddFact ==
    /\ request.ok
    /\ ~response.made
    /\ Len(request.val.builder) < MaxFacts
    /\ \E f \in 1..2 :
          request' = [request EXCEPT !.val.builder = Append(@, f)]
    /\ UNCHANGED <<response, presented, verdict, exceptThirdParty>>

\* request.create_response(private_key); the response reaches the verifier.
CreateResponse ==
    /\ request.ok
    /\ ~response.made
    /\ \E private_key \in EdPrivateKeys :
          /\ create_response(request.val, private_key).ok
          /\ response' = [made |-> TRUE,
                          content |-> create_response(request.val, private_key).val,
                          private_key |-> private_key]
          /\ presented' = [content |-> create_response(request.val, private_key).val,
                           previous_key |-> request.val.previous_key,
                           tamper |-> "none"]
    /\ verdict' = Err("none")
    /\ UNCHANGED <<request, exceptThirdParty>>

\* The payload is altered on the way: a byte changed, or a byte appended.
TamperPayload ==
    /\ response.made
    /\ presented.tamper = "none"
    /\ \E altered \in {Append(presented.content.payload, 1),
                       [presented.content.payload EXCEPT ![1] = (@ + 1) % 256]} :
          presented' = [presented EXCEPT !.content.payload = altered,
                                         !.tamper = "payload"]
    /\ verdict' = Err("none")
    /\ UNCHANGED <<request, response, exceptThirdParty>>

\* The embedded public key is replaced by another one.
SubstituteKey ==
    /\ response.made
    /\ presented.tamper = "none"
    /\ \E k \in EdPrivateKeys :
          /\ ed25519_PublicKey_to_proto(ed25519_PrivateKey_public(k))
                 # presented.content.external_signature.public_key
          /\ presented' =
                 [presented EXCEPT !.content.external_signature.public_key =
                                       ed25519_PublicKey_to_proto(ed25519_PrivateKey_public(k)),
                                   !.tamper = "public_key"]
    /\ verdict' = Err("none")
    /\ UNCHANGED <<request, response, exceptThirdParty>>

\* The response is checked against another predecessor key than the declared one.
ChangePreviousKey ==
    /\ response.made
    /\ presented.tamper = "none"
    /\ \E k \in EdKeys :
          /\ k # presented.previous_key
          /\ presented' = [presented EXCEPT !.previous_key = k,
                                            !.tamper = "previous_key"]
    /\ verdict' = Err("none")
    /\ UNCHANGED <<request, response, exceptThirdParty>>

\* The caller verifies what it was presented before splicing.
VerifyResponse ==
    /\ response.made
    /\ verdict' = verify_external_signature(presented.content, presented.previous_key)
    /\ UNCHANGED <<request, response, presented, exceptThirdParty>>

NextThirdParty ==
    \/ Deserialize \/ AddFact \/ CreateResponse \/ TamperPayload
    \/ SubstituteKey \/ ChangePreviousKey \/ VerifyResponse

SpecThirdParty == Init /\ [][NextThirdParty]_vars

(***************************************************************************)
(* The block chain: building a token, what reaches the verifier (once per  *)
(* token), and the chain walk.                                             *)
(***************************************************************************)
Payloads == {<<112, 48>>, <<112, 49>>}

\* A fresh keypair for the n-th block's successor: generation never repeats
\* a key of the chain.
FreshKeyPair(alg, n) == KeyPair_new_with_rng(alg, MaxSeed + n)

\* The issuer signs the authority block with the root keypair.
NewToken ==
    /\ chain = <<>>
    /\ \E alg \in Algorithms, seed \in 1..MaxSeed, nalg \in Algorithms,
          payload \in Payloads :
          /\ root' = KeyPair_new_with_rng(alg, seed)
          /\ next' = FreshKeyPair(nalg, 1)
          /\ chain' = <<sign_block(KeyPair_new_with_rng(alg, seed), payload,
                                   KeyPair_public(FreshKeyPair(nalg, 1)))>>
    /\ mutated' = NoMutation
    /\ outcome' = NoOutcome
    /\ UNCHANGED exceptChain

\* A holder attenuates: the declared next keypair signs a new block.
AppendBlock ==
    /\ mutated.kind = "unset"
    /\ chain # <<>>
    /\ Len(chain) < MaxChain
    /\ \E nalg \in Algorithms, payload \in Payloads :
          /\ next' = FreshKeyPair(nalg, Len(chain) + 1)
          /\ chain' = Append(chain,
                             sign_block(next, payload,
                                        KeyPair_public(FreshKeyPair(nalg, Len(chain) + 1))))
    /\ mutated' = NoMutation
    /\ outcome' = NoOutcome
    /\ UNCHANGED <<root, exceptChain>>

\* The chain reaches the verifier as issued, with the issuer's root key.
PresentIntact ==
    /\ mutated.kind = "unset"
    /\ chain # <<>>
    /\ mutated' = [kind |-> "none", index |-> 0, blocks |-> chain,
                   root |-> KeyPair_public(root)]
    /\ outcome' = NoOutcome
    /\ UNCHANGED <<chain, root, next, exceptChain>>

\* Block i changes place with a later block.
Reorder ==
    /\ mutated.kind = "unset"
    /\ \E i \in 1..Len(chain), j \in 1..Len(chain) :
          /\ i < j
          /\ mutated' = [kind |-> "reorder", index |-> i - 1,
                         blocks |-> [chain EXCEPT ![i] = chain[j], ![j] = chain[i]],
                         root |-> KeyPair_public(root)]
    /\ outcome' = NoOutcome
    /\ UNCHANGED <<chain, root, next, exceptChain>>

\* A copy of block i is inserted right after it.
Duplicate ==
    /\ mutated.kind = "unset"
    /\ \E i \in 1..Len(chain) :
          mutated' = [kind |-> "duplicate", index |-> i - 1,
                      blocks |-> SubSeq(chain, 1, i) \o SubSeq(chain, i, Len(chain)),
                      root |-> KeyPair_public(root)]
    /\ outcome' = NoOutcome
    /\ UNCHANGED <<chain, root, next, exceptChain>>

\* Block i is removed (what is left still starts with a block: a token is
\* never an empty block list).
Delete ==
    /\ mutated.kind = "unset"
    /\ Len(chain) > 1
    /\ \E i \in 1..Len(chain) :
          mutated' = [kind |-> "delete", index |-> i - 1,
                      blocks |-> SubSeq(chain, 1, i - 1) \o SubSeq(chain, i + 1, Len(chain)),
                      root |-> KeyPair_public(root)]
    /\ outcome' = NoOutcome
    /\ UNCHANGED <<chain, root, next, exceptChain>>

\* One byte of block i's payload changes.
MutatePayload ==
    /\ mutated.kind = "unset"
    /\ \E i \in 1..Len(chain) :
          mutated' = [kind |-> "payload", index |-> i - 1,
                      blocks |-> [chain EXCEPT ![i].payload[1] = (@ + 1) % 256],
                      root |-> KeyPair_public(root)]
    /\ outcome' = NoOutcome
    /\ UNCHANGED <<chain, root, next, exceptChain>>

\* The chain is verified against a root key that is not the issuer's.
WrongRoot ==
    /\ mutated.kind = "unset"
    /\ chain # <<>>
    /\ \E alg \in Algorithms, seed \in 1..MaxSeed :
          /\ KeyPair_public(KeyPair_new_with_rng(alg, seed)) # KeyPair_public(root)
          /\ mutated' = [kind |-> "root", index |-> 0, blocks |-> chain,
                         root |-> KeyPair_public(KeyPair_new_with_rng(alg, seed))]
    /\ outcome' = NoOutcome
    /\ UNCHANGED <<chain, root, next, exceptChain>>

\* Chain verification of the presented block list against the presented root key.
VerifyChain ==
    /\ mutated.kind # "unset"
    /\ ~outcome.checked
    /\ outcome' = [checked |-> TRUE,
                   result |-> verify_chain(mutated.blocks, mutated.root),
                   failing |-> failing_blocks(mutated.blocks, mutated.root)]
    /\ UNCHANGED <<chain, root, next, mutated, exceptChain>>

NextChain ==
    \/ NewToken \/ AppendBlock \/ PresentIntact \/ Reorder \/ Duplicate
    \/ Delete \/ MutatePayload \/ WrongRoot \/ VerifyChain

SpecChain == Init /\ [][NextChain]_vars

NextKeys == From \/ Insert \/ Extend \/ SplitAt

SpecKeys == Init /\ [][NextKeys]_vars

(***************************************************************************)
(* Snapshot and restore of an authorizer.                                  *)
(***************************************************************************)
\* The facts and the policy the authorizer's user adds, the facts a token's
\* blocks carry and the symbol a check of the authority block uses.
AuthorizerFacts == {"d"}
AuthorizerPolicies == {"p"}
TokenFacts == {"a", "b"}
CheckSymbol == "c"

\* The public keys of the two third parties that sign blocks.
ThirdParties == {KeyPair_public(KeyPair_new_with_rng("Ed25519", s)) : s \in {1, 2}}

\* One block of a token: its fact, whether it carries a check, and the
\* external key that signed it when a third party made it.
BlockDescs ==
    [fact : TokenFacts, check : BOOLEAN, external_key : {NoKey} \cup ThirdParties]

\* A block built from its description in the given symbol table: its symbols
\* are the ones it adds to the table, its facts and checks are indices.
build_token_block(desc, table) ==
    LET r == convert_all(<<desc.fact>> \o (IF desc.check THEN <<CheckSymbol>> ELSE <<>>),
                         table)
    IN [table |-> r.table,
        block |-> [symbols |-> SubSeq(r.table.symbols, Len(table.symbols) + 1,
                                      Len(r.table.symbols)),
                   public_keys |-> PublicKeys_new,
                   facts |-> SubSeq(r.facts, 1, 1),
                   checks |-> SubSeq(r.facts, 2, Len(r.facts)),
                   external_key |-> desc.external_key]]

RECURSIVE Biscuit_build(_, _)
\* A token: first-party blocks write into the token's symbol table, a
\* third-party block into a table of its own.
Biscuit_build(descs, table) ==
    IF descs = <<>> THEN [symbols |-> table, blocks |-> <<>>]
    ELSE LET first == IF Head(descs).external_key = NoKey
                      THEN build_token_block(Head(descs), table)
                      ELSE [table |-> table,
                            block |-> build_token_block(Head(descs),
                                                        default_symbol_table).block]
             rest == Biscuit_build(Tail(descs), first.table)
         IN [symbols |-> rest.symbols, blocks |-> <<first.block>> \o rest.blocks]

\* The tokens an authorizer is given: an authority block, then blocks that
\* carry no check.
Tokens ==
    {Biscuit_build(descs, default_symbol_table) :
        descs \in {d \in UNION {[1..n -> BlockDescs] : n \in 1..MaxBlocks} :
                      /\ d[1].external_key = NoKey
                      /\ \A i \in 2..Len(d) : ~d[i].check}}

\* authorizer.add_fact(f)
AuthorizerAddFact ==
    /\ ~input.made
    /\ Len(authorizer.authorizer_block_builder) < MaxAuthorizerFacts
    /\ \E f \in AuthorizerFacts :
          authorizer' = [authorizer EXCEPT !.authorizer_block_builder = Append(@, f)]
    /\ UNCHANGED <<input, restored, exceptSnapshot>>

\* authorizer.add_policy(p)
AddPolicy ==
    /\ ~input.made
    /\ Len(authorizer.policies) < MaxPolicies
    /\ \E pol \in AuthorizerPolicies :
          authorizer' = [authorizer EXCEPT !.policies = Append(@, pol)]
    /\ UNCHANGED <<input, restored, exceptSnapshot>>

\* authorizer.add_token(&token), on an authorizer that holds no token yet.
AddToken ==
    /\ ~input.made
    /\ ~authorizer.has_blocks
    /\ \E token \in Tokens :
          /\ add_token(authorizer, token).ok
          /\ authorizer' = add_token(authorizer, token).authorizer
    /\ UNCHANGED <<input, restored, exceptSnapshot>>

\* authorizer.authorize(): the authorizer's facts enter the fact store.
Authorize ==
    /\ ~input.made
    /\ load_authorizer_facts(authorizer) # authorizer
    /\ authorizer' = load_authorizer_facts(authorizer)
    /\ UNCHANGED <<input, restored, exceptSnapshot>>

\* input = authorizer.snapshot()?
Snapshot ==
    /\ ~input.made
    /\ \E descending \in BOOLEAN :
          /\ snapshot(authorizer, descending).ok
          /\ input' = [made |-> TRUE, tamper |-> "none",
                       val |-> snapshot(authorizer, descending).val]
    /\ UNCHANGED <<authorizer, restored, exceptSnapshot>>

\* The versions a snapshot message may carry.
Versions ==
    {[some |-> FALSE, value |-> 0]}
        \cup {[some |-> TRUE, value |-> v] :
                 v \in {0} \cup (MIN_SCHEMA_VERSION - 1)..(MAX_SCHEMA_VERSION + 1)}

\* An origin tag with no content.
InvalidOrigin == [content |-> "none", flag |-> FALSE, index |-> 0]

\* The message is changed between snapshot() and from_snapshot: another
\* version, and possibly a record of facts under an origin tag with no content.
Tamper ==
    /\ input.made
    /\ input.tamper = "none"
    /\ ~restored.done
    /\ \E version \in Versions, corrupt \in BOOLEAN :
          /\ version # input.val.version \/ corrupt
          /\ input' = [input EXCEPT
                !.tamper = IF corrupt THEN "corrupt" ELSE "version",
                !.val.version = version,
                !.val.generated_facts =
                    IF corrupt
                    THEN Append(@, [origins |-> <<InvalidOrigin>>, facts |-> <<>>])
                    ELSE @]
    /\ UNCHANGED <<authorizer, restored, exceptSnapshot>>

RECURSIVE split_entries(_)
\* The key map with one entry per governed block: an entry {key, [i, j]}
\* becomes {key, [i]}, {key, [j]}.
split_entries(key_map) ==
    IF key_map = <<>> THEN <<>>
    ELSE [j \in 1..Len(Head(key_map).block_ids) |->
             [key |-> Head(key_map).key, block_ids |-> <<Head(key_map).block_ids[j]>>]]
         \o split_entries(Tail(key_map))

\* The message reaches from_snapshot in another encoding of the same key
\* map: a key that governs several blocks is listed once per block.
SplitKeyMap ==
    /\ input.made
    /\ input.tamper = "none"
    /\ ~restored.done
    /\ split_entries(input.val.public_key_map) # input.val.public_key_map
    /\ input' = [input EXCEPT
          !.tamper = "split",
          !.val.public_key_map = split_entries(@)]
    /\ UNCHANGED <<authorizer, restored, exceptSnapshot>>

\* restored = Authorizer::from_snapshot(input)
FromSnapshot ==
    /\ input.made
    /\ ~restored.done
    /\ restored' = [done |-> TRUE, run |-> from_snapshot(input.val)]
    /\ UNCHANGED <<authorizer, input, exceptSnapshot>>

NextSnapshot ==
    \/ AuthorizerAddFact
    \/ AddPolicy
    \/ AddToken
    \/ Authorize
    \/ Snapshot
    \/ Tamper
    \/ SplitKeyMap
    \/ FromSnapshot

SpecSnapshot == Init /\ [][NextSnapshot]_vars

(***************************************************************************)
(* Conversions between wire origin tags and Origins.                       *)
(***************************************************************************)
\* The origin tags of the wire: the authorizer flag, a block index, or no
\* content at all.
OriginTags ==
    {[content |-> "authorizer", flag |-> f, index |-> 0] : f \in BOOLEAN}
        \cup {[content |-> "origin", flag |-> FALSE, index |-> i] : i \in 0..MaxBlocks}
        \cup {InvalidOrigin}

\* A message snapshot() could have made but for its one record of generated
\* facts: the default symbol "read" under the given tags.
MessageWithOrigin(tags) ==
    [NoSnapshot EXCEPT
        !.version = [some |-> TRUE, value |-> MAX_SCHEMA_VERSION],
        !.generated_facts = <<[origins |-> tags, facts |-> <<0>>]>>]

\* What from_snapshot makes of a message: its outcome and the fact store.
Restore(message) ==
    [ok |-> from_snapshot(message).ok,
     err |-> from_snapshot(message).err,
     world |-> from_snapshot(message).authorizer.world]

\* proto_origin_to_authorizer_origin(&origins), alone and within from_snapshot;
\* each behaviour makes one conversion.
ProtoToOrigin ==
    /\ conv.op = "none"
    /\ \E tags \in UNION {[1..n -> OriginTags] : n \in 0..MaxTags} :
          conv' = [op |-> "to_origin", tags |-> tags, origin |-> {},
                   result |-> proto_origin_to_authorizer_origin(tags),
                   restore |-> Restore(MessageWithOrigin(tags))]
    /\ UNCHANGED exceptOrigin

\* proto_origin_to_authorizer_origin(&authorizer_origin_to_proto_origin(&origin))
OriginRoundTrip ==
    /\ conv.op = "none"
    /\ \E origin \in SUBSET ({usize_MAX} \cup 0..MaxBlocks) :
          LET tags == authorizer_origin_to_proto_origin(origin)
          IN conv' = [op |-> "round_trip", tags |-> tags, origin |-> origin,
                      result |-> proto_origin_to_authorizer_origin(tags),
                      restore |-> Restore(MessageWithOrigin(tags))]
    /\ UNCHANGED exceptOrigin

NextOrigin ==
    \/ ProtoToOrigin
    \/ OriginRoundTrip

SpecOrigin == Init /\ [][NextOrigin]_vars

(***************************************************************************)
(* Claims on the interning table (under SpecKeys).                         *)
(***************************************************************************)
\* C1: insert(k) of a key already in the table returns the index at which k
\* was first stored and leaves current_offset() unchanged; insert(k) of a key
\* not in the table returns the table's length before the call and
\* current_offset() grows by exactly 1.
C1_InsertContract ==
    op.name = "insert" =>
        LET present == \E i \in 1..Len(op.before) : op.before[i] = op.k
        IN /\ present =>
                /\ op.ret >= 0 /\ op.ret < Len(op.before)
                /\ op.before[op.ret + 1] = op.k
                /\ \A j \in 1..op.ret : op.before[j] # op.k
                /\ current_offset(keys) = current_offset(op.before)
           /\ ~present =>
                /\ op.ret = Len(op.before)
                /\ current_offset(keys) = current_offset(op.before) + 1

\* C1 witness: a key stored at index 1 of a full table was inserted again,
\* and (other state) a new key was appended to a non-empty table.
C1_Witness ==
    /\ op.name = "insert"
    /\ Len(op.before) = MaxTable
    /\ op.ret = 1
    /\ op.before[2] = op.k

\* C2 (as claimed): after any insert, extend or split_at the table never
\* shrinks and never renumbers: current_offset() never decreases and every
\* assigned index keeps its key.
C2_NeverShrinks ==
    [][/\ current_offset(keys') >= current_offset(keys)
       /\ \A i \in 0..(Len(keys) - 1) : get_key(keys', i) = get_key(keys, i)]_vars

\* C2 (amended): insert and extend never decrease current_offset() and never
\* change the key of an assigned index; split_at(offset) truncates the table
\* to exactly its first `offset` keys, which keep their indices.
C2_GrowsExceptSplit ==
    [][/\ op'.name \in {"from", "insert", "extend"} =>
            /\ current_offset(keys') >= current_offset(keys)
            /\ \A i \in 0..(Len(keys) - 1) : get_key(keys', i) = get_key(keys, i)
       /\ op'.name = "split_at" =>
            /\ current_offset(keys') = op'.offset
            /\ \A i \in 0..(op'.offset - 1) : get_key(keys', i) = get_key(keys, i)]_vars

\* C2 witness: a split_at kept a non-empty prefix and removed a non-empty suffix.
C2_Witness ==
    /\ op.name = "split_at"
    /\ keys # <<>>
    /\ Len(keys) < Len(op.before)

\* C3 (as claimed): in every table reachable by from, insert, extend and
\* split_at no key occurs at two different indices.
C3_UniqueKeys ==
    \A i, j \in 1..Len(keys) : keys[i] = keys[j] => i = j

\* C4: after b = a.split_at(k), a holds the first k keys of T and b the
\* remaining keys in the same order, indexed from 0; after the following
\* a.extend(&b), a holds exactly the key sequence of T.
C4_SplitThenExtend ==
    /\ phase = "split" =>
          /\ keys = SubSeq(T, 1, op.offset)
          /\ other = SubSeq(T, op.offset + 1, Len(T))
          /\ \A i \in 0..(Len(other) - 1) : get_key(other, i) = get_key(T, op.offset + i)
    /\ phase = "joined" => keys = T

\* C4 witness: a table of three keys was split in the middle and joined again.
C4_Witness ==
    /\ phase = "joined"
    /\ Len(T) = MaxTable
    /\ other # <<>>
    /\ Len(other) < Len(T)

(***************************************************************************)
(* Claims on the key types (under SpecCrypto).                             *)
(***************************************************************************)
\* C9 (as claimed): for every algorithm A, from_proto of A's PublicKey type
\* fails with DeserializationError on a key message whose algorithm tag is
\* not A's, even when the bytes are valid for A, and accepts a message
\* tagged A with valid bytes.
C9_FromProtoChecksTag ==
    pres.type # "none" =>
        /\ pres.key.algorithm # AlgorithmTag(pres.type) =>
              ~pres.result.ok /\ pres.result.err = "DeserializationError"
        /\ (/\ pres.key.algorithm = AlgorithmTag(pres.type)
            /\ PublicKey_from_bytes(pres.type, pres.key.key).ok) => pres.result.ok

\* C10: for every generated keypair of every algorithm, decoding the encoded
\* private and public key (bytes and hex) succeeds, the decoded public key
\* equals the original and verifies the signatures the original keypair
\* made, and the decoded private key has the same public key.
C10_EncodingRoundTrip ==
    /\ dec.via # "none" =>
          /\ dec.private.ok
          /\ dec.public.ok
          /\ dec.public.val = KeyPair_public(kp)
          /\ PrivateKey_public(dec.private.val) = KeyPair_public(kp)
          /\ dec.private.val.algorithm = kp.algorithm
    /\ vres # Err("none") => vres.ok

\* C10 witness: a P-256 keypair's halves went through hex and back, and the
\* decoded public key verified a signature of the original keypair.
C10_Witness ==
    /\ kp.algorithm = "P256"
    /\ dec.via = "hex"
    /\ dec.private.ok
    /\ sig.signature.signer = KeyPair_public(kp)
    /\ vres.ok

(***************************************************************************)
(* Claims on the third-party handshake (under SpecThirdParty).             *)
(***************************************************************************)
\* C6: create_response returns {payload, external_signature{signature,
\* public_key}} where public_key is the public half of the supplied private
\* key and signature is that key's signature over payload ++ 4-byte
\* little-endian algorithm tag ++ previous_key bytes; verifying the response
\* with the embedded public key succeeds, and fails when the payload is
\* altered, the embedded key substituted or another previous_key used.
C6_ResponseBinding ==
    /\ response.made =>
          LET content == response.content
              signed == content.external_signature.signature.data
              n == Len(content.payload)
              public == ed25519_PrivateKey_public(response.private_key)
          IN /\ content.external_signature.public_key
                    = [algorithm |-> 0, key |-> public.x]
             /\ content.external_signature.signature.signer = public
             /\ Len(signed) = n + 4 + ED25519_KEY_LENGTH
             /\ SubSeq(signed, 1, n) = content.payload
             /\ SubSeq(signed, n + 1, n + 4) = <<0, 0, 0, 0>>
             /\ SubSeq(signed, n + 5, Len(signed)) = request.val.previous_key.x
    /\ verdict # Err("none") => (verdict.ok <=> presented.tamper = "none")
    /\ (verdict # Err("none") /\ presented.tamper # "none") =>
          verdict.err = "InvalidSignature"

\* C6 witness: a response over a block of two facts verified untouched.
C6_Witness ==
    /\ response.made
    /\ Len(request.val.builder) = MaxFacts
    /\ presented.tamper = "none"
    /\ verdict.ok

(***************************************************************************)
(* Claims on the block chain (under SpecChain).                            *)
(***************************************************************************)
\* The 0-based index of the first failing block of a failed chain walk.
FirstFailure == outcome.result.detail[1]

FactsByName(a) == {<<e[1], print_symbol(a.symbols, e[2])>> : e \in a.world}

\* C7: from_snapshot(snapshot(A)) succeeds and the restored authorizer holds
\* the same blocks, the same policies and, under every origin, the same set
\* of facts as A, the facts compared by the symbols their indices denote in
\* each authorizer's symbol table.
C7_RoundTrip ==
    (restored.done /\ input.tamper = "none") =>
        /\ restored.run.ok
        /\ restored.run.authorizer.blocks = authorizer.blocks
        /\ restored.run.authorizer.policies = authorizer.policies
        /\ FactsByName(restored.run.authorizer) = FactsByName(authorizer)

\* C8: from_snapshot fails with a Version error that carries
\* MIN_SCHEMA_VERSION, MAX_SCHEMA_VERSION and the message's version (0 when
\* absent) whenever that version lies outside the two bounds, whatever else
\* the message holds; and snapshot() stamps MAX_SCHEMA_VERSION, so from_snapshot
\* never answers a message snapshot() made with a Version error.
C8_VersionCheck ==
    LET actual == IF input.val.version.some THEN input.val.version.value ELSE 0
    IN /\ (restored.done /\ (actual < MIN_SCHEMA_VERSION \/ actual > MAX_SCHEMA_VERSION)) =>
              /\ ~restored.run.ok
              /\ restored.run.err = "Version"
              /\ restored.run.detail = <<MIN_SCHEMA_VERSION, MAX_SCHEMA_VERSION, actual>>
       /\ (input.made /\ input.tamper = "none") =>
              /\ input.val.version = [some |-> TRUE, value |-> MAX_SCHEMA_VERSION]
              /\ restored.done => restored.run.err # "Version"

\* A message whose version is absent and whose generated facts carry an
\* invalid origin tag has been refused for its version.
C8_Witness ==
    /\ restored.done
    /\ input.tamper = "corrupt"
    /\ ~input.val.version.some
    /\ Len(input.val.blocks) > 0
    /\ restored.run.err = "Version"

\* The block indices the message's public_key_map assigns to an external key.
ExternalBlockIds(message) ==
    UNION {{message.public_key_map[e].block_ids[j] :
                j \in 1..Len(message.public_key_map[e].block_ids)} :
           e \in 1..Len(message.public_key_map)}

RECURSIVE AppendNew(_, _)
\* seq followed by the strings of more it does not hold yet, in their order.
AppendNew(seq, more) ==
    IF more = <<>> THEN seq
    ELSE AppendNew(IF \E j \in 1..Len(seq) : seq[j] = Head(more)
                   THEN seq ELSE Append(seq, Head(more)),
                   Tail(more))

RECURSIVE FirstPartySymbols(_, _)
\* The symbols of the first n blocks of the message that no external key
\* governs, in block order.
FirstPartySymbols(message, n) ==
    IF n = 0 THEN <<>>
    ELSE IF (n - 1) \in ExternalBlockIds(message)
    THEN FirstPartySymbols(message, n - 1)
    ELSE AppendNew(FirstPartySymbols(message, n - 1), message.blocks[n].symbols)

\* C11: once from_snapshot has gone through the message's blocks, the token
\* symbol table holds the symbols of the blocks that public_key_map assigns to
\* no external key, in block order, and no symbol that only a block assigned
\* to an external key carries.
C11_TokenSymbols ==
    (restored.done /\ restored.run.err # "Version") =>
        /\ restored.run.token_symbols.symbols
               = FirstPartySymbols(input.val, Len(input.val.blocks))
        /\ \A i \in ExternalBlockIds(input.val) :
              i < Len(input.val.blocks) =>
                 \A j \in 1..Len(input.val.blocks[i + 1].symbols) :
                    (\E k \in 1..Len(restored.run.token_symbols.symbols) :
                        restored.run.token_symbols.symbols[k]
                            = input.val.blocks[i + 1].symbols[j])
                    => \E b \in (0..(Len(input.val.blocks) - 1)) \ ExternalBlockIds(input.val) :
                          \E k \in 1..Len(input.val.blocks[b + 1].symbols) :
                             input.val.blocks[b + 1].symbols[k]
                                 = input.val.blocks[i + 1].symbols[j]

\* A message whose second block is governed by an external key and brings a
\* symbol of its own has been read: the table holds the first block's symbol only.
C11_Witness ==
    /\ restored.done
    /\ restored.run.err # "Version"
    /\ 1 \in ExternalBlockIds(input.val)
    /\ Len(input.val.blocks) >= 2
    /\ input.val.blocks[1].symbols = <<"a">>
    /\ input.val.blocks[2].symbols = <<"b">>
    /\ restored.run.token_symbols.symbols = <<"a">>

\* The {key, block ids} records of a key map, whatever their order.
KeyMapRecords(key_map) == {key_map[e] : e \in 1..Len(key_map)}

WellFormedTag(tag) ==
    \/ tag.content = "authorizer" /\ tag.flag
    \/ tag.content = "origin"

\* C13: a list of origin tags converts exactly when every tag is the
\* authorizer flag set to true or a block index, to the set of the authorizer
\* sentinel (for a flag) and the indices; a tag without content or a flag set
\* to false fails the conversion, and from_snapshot with it, with the
\* deserialization error; an Origin converted to tags and back is the same Origin.
C13_OriginTags ==
    LET well_formed == \A i \in 1..Len(conv.tags) : WellFormedTag(conv.tags[i])
        expected == {usize_MAX : i \in {j \in 1..Len(conv.tags) :
                                           conv.tags[j].content = "authorizer"}}
                       \cup {conv.tags[i].index :
                                i \in {j \in 1..Len(conv.tags) :
                                          conv.tags[j].content = "origin"}}
    IN /\ conv.op # "none" =>
             /\ conv.result.ok <=> well_formed
             /\ well_formed =>
                   /\ conv.result.val = expected
                   /\ conv.restore.ok
                   /\ conv.restore.world = {<<expected, 0>>}
             /\ ~well_formed =>
                   /\ conv.result.err = "DeserializationError"
                   /\ ~conv.restore.ok
                   /\ conv.restore.err = "DeserializationError"
       /\ conv.op = "round_trip" =>
             /\ conv.result.ok
             /\ conv.result.val = conv.origin

\* A list that holds a block index and an authorizer flag set to false has
\* been refused.
C13_Witness ==
    /\ conv.op = "to_origin"
    /\ \E i \in 1..Len(conv.tags) : conv.tags[i].content = "origin"
    /\ \E i \in 1..Len(conv.tags) :
          conv.tags[i].content = "authorizer" /\ ~conv.tags[i].flag
    /\ ~conv.result.ok
    /\ ~conv.restore.ok

(***************************************************************************)
(* Claims on the algorithm tags (under SpecCrypto).                        *)
(***************************************************************************)
\* The name an algorithm's printed keys start with.
AlgorithmName(alg) == IF alg = "Ed25519" THEN "ed25519" ELSE "p256"

\* C14: a keypair of algorithm A and the private and public keys projected
\* from it all report A from algorithm(), the public key's to_proto() carries
\* A's tag and its print() starts with A's name.
C14_TagsAgree ==
    reported.of # NoKeyPair =>
        /\ reported.keypair = reported.of.algorithm
        /\ reported.private = reported.of.algorithm
        /\ reported.public = reported.of.algorithm
        /\ reported.proto = AlgorithmTag(reported.of.algorithm)
        /\ reported.print = AlgorithmName(reported.of.algorithm)

=============================================================================
